---- MODULE Spec2Model ----
(***************************************************************************)
(* A model of openai_chat_app.py: the AIChatApp controller, its            *)
(* Conversation objects, their OpenAIChatSession, and the remote Responses *)
(* API the session talks to.                                               *)
(*                                                                         *)
(* Texts (prompts, replies, names, keys, model names) are sequences of     *)
(* units: a unit is a word, a piece of punctuation or one blank " ".       *)
(***************************************************************************)
EXTENDS Integers, Sequences, FiniteSets, TLC

\* ------------------------------------------------------------------ bounds
MaxConvs == 2
MaxResponses == 2
MaxDialogEvents == 2

\* ------------------------------------------------------------ plain values
None == "None"
NoText == <<"None">>
NoConversation == 0
Unavailable == "(unavailable)"
Efforts == {"low", "medium", "high"}
\* the efforts the user picks in a selector
EffortPicks == {"medium", "high"}
SpecialToken == "<|endoftext|>"

Gpt4o == <<"gpt-4o">>
Gpt5Mini == <<"gpt-5", "-mini">>
\* the model ids the account can list, in sorted() order
AllModelsSorted == <<Gpt4o, Gpt5Mini>>
ModelListings == SUBSET {Gpt4o, Gpt5Mini}

KeyEntries == {<<>>, <<" ", "sk-A">>}
\* what the user types over the suggested name
TypedNames == {<<" ">>, <<"Conversation", " ", "1", " ">>}
PromptEntries == {<<>>, <<" ">>, <<"hi", " ">>}
ReplyOutputs == {<<"ok", "then">>, <<SpecialToken>>, <<>>, NoText}

\* ---------------------------------------------------------- pure helpers
RECURSIVE LStrip(_)
LStrip(s) == IF s # <<>> /\ Head(s) = " " THEN LStrip(Tail(s)) ELSE s

RECURSIVE RStrip(_)
RStrip(s) ==
    IF s # <<>> /\ s[Len(s)] = " " THEN RStrip(SubSeq(s, 1, Len(s) - 1)) ELSE s

\* str.strip()
Strip(s) == RStrip(LStrip(s))

\* Python truthiness of an optional text
Truthy(t) == t # NoText /\ t # <<>>

is_reasoning_compatible_model(model_name) ==
    model_name # <<>> /\ Head(model_name) = "gpt-5"

\* tiktoken as the process finds it: "ok", or "fails" when no encoding can be
\* loaded (_get_encoding_for_model raises)
VARIABLE tiktoken

\* encoding.encode(text): raises on a special token, else one token per unit
EncodeRaises(text) == \E i \in 1..Len(text) : text[i] = SpecialToken
EncodeLen(text) == Len(text)

RECURSIVE SumTokens(_)
SumTokens(history) ==
    IF history = <<>> THEN 0
    ELSE EncodeLen(Head(history).message_text) + SumTokens(Tail(history))

HistoryRaises(history) ==
    \E i \in 1..Len(history) : EncodeRaises(history[i].message_text)

\* update_token_count, had the total been added to the previous count
update_token_count_added(old_count, history) ==
    IF tiktoken = "fails" \/ HistoryRaises(history)
    THEN old_count ELSE old_count + SumTokens(history)

\* the value of session.token_count after update_token_count(history)
update_token_count(old_count, history) ==
    IF tiktoken = "fails" \/ HistoryRaises(history)
    THEN old_count ELSE SumTokens(history)

DefaultName(counter) == <<"Conversation", " ", ToString(counter)>>

\* count_tokens, had it encoded the text without catching any failure
count_tokens_unguarded(model, contents) == EncodeLen(contents)

\* _ModelsWrapper.count_tokens: total_tokens of its result
count_tokens(model, contents) ==
    IF tiktoken = "fails" \/ EncodeRaises(contents) THEN 0 ELSE EncodeLen(contents)

\* ------------------------------------------------- NewConversationDialog
DialogInit ==
    [ok_button |-> "disabled", values |-> <<>>, model_var |-> <<>>,
     reasoning_effort_var |-> Unavailable, reasoning_combobox |-> "disabled"]

_on_model_change(d) ==
    IF is_reasoning_compatible_model(d.model_var)
    THEN [d EXCEPT !.reasoning_combobox = "readonly",
                   !.reasoning_effort_var =
                       IF @ \notin Efforts THEN "medium" ELSE @]
    ELSE [d EXCEPT !.reasoning_effort_var = Unavailable,
                   !.reasoning_combobox = "disabled"]

\* _load_models with a non-empty key; listing is what client.models.list() gave
_load_models(d, listing) ==
    LET available_models == SelectSeq(AllModelsSorted, LAMBDA m : m \in listing)
        cleared == [d EXCEPT !.model_var = <<>>, !.values = <<>>,
                             !.ok_button = "disabled"]
    IN IF available_models = <<>>
       THEN cleared
       ELSE [_on_model_change([cleared EXCEPT !.values = available_models,
                                              !.model_var = available_models[1]])
               EXCEPT !.ok_button = "normal"]

DialogSelectModel(d, m) == _on_model_change([d EXCEPT !.model_var = m])

DialogPickEffort(d, e) == [d EXCEPT !.reasoning_effort_var = e]

DialogSteps(d) ==
    {_load_models(d, l) : l \in ModelListings}
    \cup {DialogSelectModel(d, d.values[i]) : i \in 1..Len(d.values)}
    \cup (IF d.reasoning_combobox = "readonly"
          THEN {DialogPickEffort(d, e) : e \in EffortPicks} ELSE {})

RECURSIVE DialogReach(_)
DialogReach(n) ==
    IF n = 0 THEN {DialogInit}
    ELSE LET S == DialogReach(n - 1)
         IN S \cup UNION {DialogSteps(d) : d \in S}

\* what _on_ok can read when a button is pressed: the OK button's state and
\* the two variables, in every state the dialog's widgets can be in
DialogEndStates ==
    {[ok_button |-> d.ok_button, model_var |-> d.model_var,
      reasoning_effort_var |-> d.reasoning_effort_var] :
         d \in DialogReach(MaxDialogEvents)}

\* the dialog as Cancel or the window's close button leaves it
DialogCancelled ==
    [ok_button |-> DialogInit.ok_button, model_var |-> DialogInit.model_var,
     reasoning_effort_var |-> DialogInit.reasoning_effort_var]

\* _on_ok: the result tuple, or the error shown when validation fails
_on_ok(d, key_entry, name_entry) ==
    LET api_key == Strip(key_entry)
        model_name == d.model_var
        conversation_name == Strip(name_entry)
    IN IF api_key = <<>> \/ model_name = <<>> \/ conversation_name = <<>>
       THEN [error |-> "Input Error"]
       ELSE [error |-> None, api_key |-> api_key, model_name |-> model_name,
             conversation_name |-> conversation_name,
             effort |-> IF is_reasoning_compatible_model(model_name)
                        THEN d.reasoning_effort_var ELSE None]

\* ------------------------------------------------------ OpenAIChatSession
\* Conversation.__init__ and OpenAIChatSession.__init__
NewConversation(api_key, name, model) ==
    [name |-> name, chat_history |-> <<>>, api_key |-> api_key, model |-> model,
     reasoning_effort |-> None, previous_response_id |-> None, token_count |-> 0]

UserMessage(prompt) == [role |-> "user", content |-> prompt]

\* HistoryMessages, had the internal roles been sent as they are
HistoryMessages_unmapped(history) ==
    [i \in 1..Len(history) |->
        [role |-> history[i].role, content |-> history[i].message_text]]

\* the history as input messages, 'model' mapped to the API's 'assistant'
HistoryMessages(history) ==
    [i \in 1..Len(history) |->
        [role |-> IF history[i].role = "model" THEN "assistant" ELSE history[i].role,
         content |-> history[i].message_text]]

\* ReasoningParam, had the effort been passed on for every gpt-5 model
ReasoningParam_any(c) ==
    IF is_reasoning_compatible_model(c.model) THEN c.reasoning_effort ELSE None

\* kwargs["reasoning"]["effort"], or None when kwargs has no "reasoning"
ReasoningParam(c) ==
    IF is_reasoning_compatible_model(c.model) /\ c.reasoning_effort \in Efforts
    THEN c.reasoning_effort ELSE None

\* FirstRequest, had the history been resent on every request
FirstRequest_resend(c, prompt) ==
    [attempt |-> "first", model |-> c.model, store |-> TRUE,
     input |-> HistoryMessages(c.chat_history) \o <<UserMessage(prompt)>>,
     previous_response_id |-> c.previous_response_id,
     reasoning |-> ReasoningParam(c)]

\* FirstRequest, had the input always been the new prompt alone
FirstRequest_prompt_only(c, prompt) ==
    [attempt |-> "first", model |-> c.model, store |-> TRUE,
     input |-> <<UserMessage(prompt)>>,
     previous_response_id |-> c.previous_response_id,
     reasoning |-> ReasoningParam(c)]

\* kwargs of the first responses.create call of a send
FirstRequest(c, prompt) ==
    [attempt |-> "first", model |-> c.model, store |-> TRUE,
     input |-> IF c.previous_response_id = None /\ c.chat_history # <<>>
               THEN HistoryMessages(c.chat_history) \o <<UserMessage(prompt)>>
               ELSE <<UserMessage(prompt)>>,
     previous_response_id |-> c.previous_response_id,
     reasoning |-> ReasoningParam(c)]

\* RetryRequest, had the retry sent the new prompt alone
RetryRequest_prompt_only(c, prompt) ==
    [attempt |-> "retry", model |-> c.model, store |-> TRUE,
     input |-> <<UserMessage(prompt)>>,
     previous_response_id |-> None,
     reasoning |-> ReasoningParam(c)]

\* kwargs_retry, built after a missing-previous-response error
RetryRequest(c, prompt) ==
    [attempt |-> "retry", model |-> c.model, store |-> TRUE,
     input |-> IF c.chat_history # <<>>
               THEN HistoryMessages(c.chat_history) \o <<UserMessage(prompt)>>
               ELSE <<UserMessage(prompt)>>,
     previous_response_id |-> None,
     reasoning |-> ReasoningParam(c)]

\* record_reply, had the reply been recorded before the prompt
record_reply_reply_first(c, prompt, reply) ==
    IF Truthy(reply)
    THEN LET history == c.chat_history
                 \o <<[role |-> "model", message_text |-> reply],
                      [role |-> "user", message_text |-> prompt]>>
         IN [c EXCEPT !.chat_history = history,
                      !.token_count = update_token_count(@, history)]
    ELSE c

\* record_reply, had the prompt been recorded before the reply was known
record_reply_prompt_kept(c, prompt, reply) ==
    IF Truthy(reply)
    THEN LET history == c.chat_history
                 \o <<[role |-> "user", message_text |-> prompt],
                      [role |-> "model", message_text |-> reply]>>
         IN [c EXCEPT !.chat_history = history,
                      !.token_count = update_token_count(@, history)]
    ELSE [c EXCEPT !.chat_history =
                       Append(@, [role |-> "user", message_text |-> prompt])]

\* record_reply, had the history been rebuilt from the last turn alone
record_reply_last_turn(c, prompt, reply) ==
    IF Truthy(reply)
    THEN LET history == <<[role |-> "user", message_text |-> prompt],
                          [role |-> "model", message_text |-> reply]>>
         IN [c EXCEPT !.chat_history = history,
                      !.token_count = update_token_count(@, history)]
    ELSE c

\* Conversation.send_message once the session call returned ai_reply_text
record_reply(c, prompt, reply) ==
    IF Truthy(reply)
    THEN LET history == c.chat_history
                 \o <<[role |-> "user", message_text |-> prompt],
                      [role |-> "model", message_text |-> reply]>>
         IN [c EXCEPT !.chat_history = history,
                      !.token_count = update_token_count(@, history)]
    ELSE c

\* the value Conversation.send_message returns
send_message_result(reply) == IF Truthy(reply) THEN reply ELSE NoText

\* ------------------------------------------------------------------ state
VARIABLES
    conversations,              \* AIChatApp.conversations, sessions inlined
    active_conversation,        \* index into conversations, or NoConversation
    conversation_combobox,      \* the name the conversation selector shows
    conversation_counter,
    messages_tree,              \* node ids of the message list, in order
    message_node_to_content,
    reasoning_effort_ui_var,
    reasoning_effort_combobox,  \* "disabled" or "readonly"
    waiting_popup,              \* TRUE while the modal popup exists
    pc,                         \* where send_prompt stands: idle, first, retry
    prompt_text,                \* send_prompt's local
    inflight,                   \* requests sent and not yet answered
    response,                   \* outcome of the session's last responses.create
    ai_reply_text,              \* what Conversation.send_message returned
    messagebox,                 \* title of the error box the handler showed
    dialog_result,              \* _add_new_conversation's local: dialog.result
    selected_message_token_count_var,  \* the label over the message text
    responses,                  \* what the remote API has stored (store=True)
    remote_thread               \* per conversation, the messages of the chain of
                                \* stored responses its previous_response_id ends

vars == <<conversations, active_conversation, conversation_combobox,
          conversation_counter, messages_tree, message_node_to_content,
          reasoning_effort_ui_var, reasoning_effort_combobox, waiting_popup,
          pc, prompt_text, inflight, response, ai_reply_text, messagebox,
          dialog_result, selected_message_token_count_var, tiktoken,
          responses, remote_thread>>

NoResponse == [kind |-> "none", output_text |-> NoText]

\* dialog.result of a dialog that was cancelled or closed
NoDialogResult == [error |-> "cancelled"]

\* UIThreadBlocked, had the session call been made off the UI thread
UIThreadBlocked_never == FALSE

\* the UI thread is inside send_prompt's synchronous call: no handler is dispatched
UIThreadBlocked == pc # "idle"

Init ==
    /\ conversations = <<>>
    /\ active_conversation = NoConversation
    /\ conversation_combobox = <<>>
    /\ conversation_counter = 1
    /\ messages_tree = <<>>
    /\ message_node_to_content = << >>
    /\ reasoning_effort_ui_var = Unavailable
    /\ reasoning_effort_combobox = "disabled"
    /\ waiting_popup = FALSE
    /\ pc = "idle"
    /\ prompt_text = NoText
    /\ inflight = {}
    /\ response = NoResponse
    /\ ai_reply_text = NoText
    /\ messagebox = None
    /\ dialog_result = NoDialogResult
    /\ selected_message_token_count_var = <<>>
    /\ tiktoken = "ok"
    /\ responses = {}
    /\ remote_thread = <<>>

\* ------------------------------------------------------------- UI helpers
\* Treeview.insert: an item id no item of the tree has
NewNode(tree) ==
    CHOOSE n \in 1..(Len(tree) + 1) :
        /\ \A i \in 1..Len(tree) : tree[i] # n
        /\ \A k \in 1..(n - 1) : \E i \in 1..Len(tree) : tree[i] = k

\* DisplayTree, had the tree not been cleared before the redraw
DisplayTree_kept(history) ==
    messages_tree \o [i \in 1..Len(history) |-> Len(messages_tree) + i]

\* _display_conversation_in_treeview: the tree and the node map, rebuilt
DisplayTree(history) == [i \in 1..Len(history) |-> i]
DisplayContent(history) == [i \in 1..Len(history) |-> history[i]]

\* _update_reasoning_controls, had a compatible model always shown the default
_update_reasoning_controls_default(convs, active) ==
    IF active = NoConversation
    THEN <<Unavailable, "disabled">>
    ELSE IF is_reasoning_compatible_model(convs[active].model)
         THEN <<"medium", "readonly">>
         ELSE <<Unavailable, "disabled">>

\* _update_reasoning_controls: <<selector value, selector state>>
_update_reasoning_controls(convs, active) ==
    IF active = NoConversation
    THEN <<Unavailable, "disabled">>
    ELSE IF is_reasoning_compatible_model(convs[active].model)
         THEN <<IF convs[active].reasoning_effort \in Efforts
                THEN convs[active].reasoning_effort ELSE "medium",
                "readonly">>
         ELSE <<Unavailable, "disabled">>

\* _on_active_conversation_change, for the conversation that became active
OnActiveConversationChange(convs, active) ==
    /\ messages_tree' = DisplayTree(convs[active].chat_history)
    /\ message_node_to_content' = DisplayContent(convs[active].chat_history)
    /\ reasoning_effort_ui_var' = _update_reasoning_controls(convs, active)[1]
    /\ reasoning_effort_combobox' = _update_reasoning_controls(convs, active)[2]
    \* _clear_message_display
    /\ selected_message_token_count_var' = <<>>

HandlerLocalsReset ==
    /\ prompt_text' = NoText
    /\ response' = NoResponse
    /\ ai_reply_text' = NoText

\* NameTaken, had the duplicate check been left out
NameTaken_never(convs, conversation_name) == FALSE

\* the duplicate check of _add_new_conversation
NameTaken(convs, conversation_name) ==
    \E i \in 1..Len(convs) : convs[i].name = conversation_name

\* ---------------------------------------------------------------- actions
\* AIChatApp._add_new_conversation: the dialog is left in state d with the
\* given entries and the given button; the handler runs to its end
_add_new_conversation(d, key_entry, name_entry, button) ==
    /\ ~UIThreadBlocked
    /\ Len(conversations) < MaxConvs
    /\ button = "ok" => d.ok_button = "normal"
    /\ HandlerLocalsReset
    /\ UNCHANGED <<waiting_popup, pc, inflight, responses, tiktoken>>
    /\ LET on_ok == IF button = "ok" THEN _on_ok(d, key_entry, name_entry)
                    ELSE NoDialogResult
           result == IF on_ok.error = None THEN on_ok ELSE NoDialogResult
       IN /\ dialog_result' = result
          /\ IF result.error # None
             THEN \* no result: the dialog was cancelled, after an Input Error or not
                  /\ messagebox' = IF on_ok.error = "Input Error"
                                   THEN "Input Error" ELSE None
                  /\ UNCHANGED <<conversations, active_conversation,
                                 conversation_combobox, conversation_counter,
                                 messages_tree, message_node_to_content,
                                 reasoning_effort_ui_var, reasoning_effort_combobox,
                                 selected_message_token_count_var, remote_thread>>
             ELSE IF NameTaken(conversations, result.conversation_name)
             THEN /\ messagebox' = "Duplicate Name"
                  /\ UNCHANGED <<conversations, active_conversation,
                                 conversation_combobox, conversation_counter,
                                 messages_tree, message_node_to_content,
                                 reasoning_effort_ui_var, reasoning_effort_combobox,
                                 selected_message_token_count_var, remote_thread>>
             ELSE LET created == NewConversation(result.api_key,
                                                 result.conversation_name,
                                                 result.model_name)
                      new_conversation ==
                          IF /\ result.effort \in Efforts
                             /\ is_reasoning_compatible_model(result.model_name)
                          THEN [created EXCEPT !.reasoning_effort = result.effort]
                          ELSE created
                      convs == Append(conversations, new_conversation)
                  IN /\ conversations' = convs
                     /\ remote_thread' = Append(remote_thread, <<>>)
                     /\ conversation_counter' = conversation_counter + 1
                     /\ conversation_combobox' = new_conversation.name
                     /\ active_conversation' = Len(convs)
                     /\ OnActiveConversationChange(convs, Len(convs))
                     /\ messagebox' = None

\* AIChatApp._on_conversation_combobox_select: the user picked the i-th name
_on_conversation_combobox_select(i) ==
    /\ ~UIThreadBlocked
    /\ i \in 1..Len(conversations)
    /\ HandlerLocalsReset
    /\ messagebox' = None
    /\ dialog_result' = NoDialogResult
    /\ conversation_combobox' = conversations[i].name
    /\ LET found == {k \in 1..Len(conversations) :
                        conversations[k].name = conversations[i].name}
           \* the loop stops at the first conversation of that name
           conv == CHOOSE k \in found : \A j \in found : k <= j
       IN /\ active_conversation' = conv
          /\ OnActiveConversationChange(conversations, conv)
    /\ UNCHANGED <<conversations, conversation_counter, waiting_popup, pc,
                   inflight, responses, tiktoken, remote_thread>>

\* _on_reasoning_effort_change, had the effort been shared by all sessions
_on_reasoning_effort_change_shared(effort) ==
    /\ ~UIThreadBlocked
    /\ reasoning_effort_combobox = "readonly"
    /\ HandlerLocalsReset
    /\ messagebox' = None
    /\ dialog_result' = NoDialogResult
    /\ reasoning_effort_ui_var' = effort
    /\ conversations' =
           [i \in 1..Len(conversations) |->
               IF is_reasoning_compatible_model(conversations[i].model)
               THEN [conversations[i] EXCEPT !.reasoning_effort = effort]
               ELSE conversations[i]]
    /\ UNCHANGED <<active_conversation, conversation_combobox, conversation_counter,
                   messages_tree, message_node_to_content,
                   reasoning_effort_combobox, waiting_popup, pc, inflight,
                   responses, selected_message_token_count_var, tiktoken,
                   remote_thread>>

\* AIChatApp._on_reasoning_effort_change: the user picked effort in the selector
_on_reasoning_effort_change(effort) ==
    /\ ~UIThreadBlocked
    /\ reasoning_effort_combobox = "readonly"
    /\ HandlerLocalsReset
    /\ messagebox' = None
    /\ dialog_result' = NoDialogResult
    /\ reasoning_effort_ui_var' = effort
    /\ conversations' =
           IF /\ active_conversation # NoConversation
              /\ is_reasoning_compatible_model(conversations[active_conversation].model)
              /\ effort \in Efforts
           THEN [conversations EXCEPT ![active_conversation].reasoning_effort = effort]
           ELSE conversations
    /\ UNCHANGED <<active_conversation, conversation_combobox, conversation_counter,
                   messages_tree, message_node_to_content,
                   reasoning_effort_combobox, waiting_popup, pc, inflight,
                   responses, selected_message_token_count_var, tiktoken,
                   remote_thread>>

\* AIChatApp.send_prompt up to the first responses.create call
send_prompt(entry) ==
    /\ ~UIThreadBlocked
    /\ response' = NoResponse
    /\ ai_reply_text' = NoText
    /\ dialog_result' = NoDialogResult
    /\ UNCHANGED <<conversations, active_conversation, conversation_combobox,
                   conversation_counter, messages_tree, message_node_to_content,
                   reasoning_effort_ui_var, reasoning_effort_combobox, responses,
                   selected_message_token_count_var, tiktoken, remote_thread>>
    /\ IF Strip(entry) = <<>>
       THEN /\ messagebox' = "Prompt Required"
            /\ prompt_text' = NoText
            /\ UNCHANGED <<waiting_popup, pc, inflight>>
       ELSE IF active_conversation = NoConversation
       THEN /\ messagebox' = "Conversation Required"
            /\ prompt_text' = NoText
            /\ UNCHANGED <<waiting_popup, pc, inflight>>
       ELSE /\ messagebox' = None
            /\ prompt_text' = Strip(entry)
            /\ waiting_popup' = TRUE
            /\ pc' = "first"
            /\ inflight' = inflight
                   \cup {FirstRequest(conversations[active_conversation], Strip(entry))}

\* the rest of send_prompt, from the return of the session call: c is the
\* active conversation as the session call left it, reply what the call returned
FinishSend(c, reply) ==
    LET ret == send_message_result(reply)
        user_node == NewNode(messages_tree)
        ai_node == NewNode(Append(messages_tree, user_node))
    IN /\ conversations' =
              [conversations EXCEPT ![active_conversation] =
                                        record_reply(c, prompt_text, reply)]
       /\ ai_reply_text' = ret
       /\ waiting_popup' = FALSE
       /\ pc' = "idle"
       /\ prompt_text' = NoText
       /\ IF Truthy(ret) /\ conversation_combobox # <<>>
          THEN /\ messages_tree' = messages_tree \o <<user_node, ai_node>>
               /\ message_node_to_content' =
                      [n \in DOMAIN message_node_to_content \cup {user_node, ai_node} |->
                          IF n = user_node
                          THEN [role |-> "user", message_text |-> prompt_text]
                          ELSE IF n = ai_node
                          THEN [role |-> "model", message_text |-> ret]
                          ELSE message_node_to_content[n]]
               /\ messagebox' = None
          ELSE /\ UNCHANGED <<messages_tree, message_node_to_content>>
               /\ messagebox' = IF Truthy(ret) THEN None ELSE "OpenAI Error"
       /\ UNCHANGED <<active_conversation, conversation_combobox,
                      conversation_counter, reasoning_effort_ui_var,
                      reasoning_effort_combobox, dialog_result,
                      selected_message_token_count_var, tiktoken>>

\* response.id: the API's ids are opaque and unique; the k-th response to
\* requests of the conv-th conversation's session is named after conv and k
ResponseId(conv, k) == "resp_" \o ToString(conv) \o "_" \o ToString(k)

\* the id of a response the API stores now: one that no stored response has
NewResponseId(conv) ==
    LET k == CHOOSE k \in 1..(Cardinality(responses) + 1) :
                 /\ [id |-> ResponseId(conv, k)] \notin responses
                 /\ \A j \in 1..(k - 1) : [id |-> ResponseId(conv, j)] \in responses
    IN ResponseId(conv, k)

\* responses.create returns a response whose output text is output_text
ApiAnswers(req, output_text) ==
    /\ pc \in {"first", "retry"}
    /\ req \in inflight
    /\ Cardinality(responses) < MaxResponses
    /\ LET id == NewResponseId(active_conversation)
       IN /\ responses' = responses \cup {[id |-> id]}
          /\ remote_thread' =
                 [remote_thread EXCEPT ![active_conversation] =
                     (IF req.previous_response_id = None THEN <<>> ELSE @)
                         \o req.input
                         \o <<[role |-> "assistant",
                               \* a response without text holds an empty text
                               content |-> IF output_text = NoText THEN <<>>
                                           ELSE output_text]>>]
          /\ response' = [kind |-> "ok", output_text |-> output_text]
          /\ inflight' = inflight \ {req}
          /\ FinishSend([conversations[active_conversation]
                            EXCEPT !.previous_response_id = id], output_text)

\* the first responses.create raises previous_response_not_found: reset and retry
ApiPreviousResponseNotFound(req) ==
    /\ pc = "first"
    /\ req \in inflight
    /\ req.previous_response_id # None
    /\ LET c == [conversations[active_conversation]
                    EXCEPT !.previous_response_id = None]
       IN /\ conversations' = [conversations EXCEPT ![active_conversation] = c]
          /\ inflight' = (inflight \ {req}) \cup {RetryRequest(c, prompt_text)}
    /\ response' = [kind |-> "previous_response_not_found", output_text |-> NoText]
    /\ pc' = "retry"
    /\ UNCHANGED <<active_conversation, conversation_combobox,
                   conversation_counter, messages_tree, message_node_to_content,
                   reasoning_effort_ui_var, reasoning_effort_combobox,
                   waiting_popup, prompt_text, ai_reply_text, messagebox,
                   dialog_result, responses,
                   selected_message_token_count_var, tiktoken>>
    \* with no previous_response_id the session refers to no stored response
    /\ remote_thread' = [remote_thread EXCEPT ![active_conversation] = <<>>]

\* ApiFails, had any error reset the session's previous_response_id
ApiFails_reset(req) ==
    /\ pc \in {"first", "retry"}
    /\ req \in inflight
    /\ response' = [kind |-> "error", output_text |-> NoText]
    /\ inflight' = inflight \ {req}
    /\ UNCHANGED <<responses, remote_thread>>
    /\ FinishSend([conversations[active_conversation]
                      EXCEPT !.previous_response_id = None], NoText)

\* responses.create raises any other error (or the retry raises): None is returned
ApiFails(req) ==
    /\ pc \in {"first", "retry"}
    /\ req \in inflight
    /\ response' = [kind |-> "error", output_text |-> NoText]
    /\ inflight' = inflight \ {req}
    /\ UNCHANGED <<responses, remote_thread>>
    /\ FinishSend(conversations[active_conversation], NoText)

Next ==
    \/ \E d \in DialogEndStates, key_entry \in KeyEntries,
          name_entry \in TypedNames \cup {DefaultName(conversation_counter)} :
            _add_new_conversation(d, key_entry, name_entry, "ok")
    \/ _add_new_conversation(DialogCancelled, <<>>, <<>>, "cancel")
    \/ \E i \in 1..MaxConvs : _on_conversation_combobox_select(i)
    \/ \E effort \in EffortPicks : _on_reasoning_effort_change(effort)
    \/ \E entry \in PromptEntries : send_prompt(entry)
    \/ \E req \in inflight, output_text \in ReplyOutputs : ApiAnswers(req, output_text)
    \/ \E req \in inflight : ApiPreviousResponseNotFound(req)
    \/ \E req \in inflight : ApiFails(req)

Spec == Init /\ [][Next]_vars

\* --------------------------------------------------- the session on its own
\* A session is an object any caller can construct and set up: here the
\* application holds one conversation whose session is in any state its
\* attributes can be put in, and tiktoken may be unable to load an encoding.
FtGpt5 == <<"ft:", "gpt-5">>
SessionModels == {Gpt4o, Gpt5Mini, FtGpt5}
SessionEfforts == {None, "low", "medium", "high", "minimal"}
SessionHistories ==
    {<<>>,
     <<[role |-> "user", message_text |-> <<"hi">>],
       [role |-> "model", message_text |-> <<"ok", "then">>]>>,
     <<[role |-> "system", message_text |-> <<"be", " ", "brief">>],
       [role |-> "user", message_text |-> <<"hi">>],
       [role |-> "model", message_text |-> <<SpecialToken>>]>>}
SessionTokenCounts == {0, 7}

SessionInit ==
    \E model \in SessionModels, effort \in SessionEfforts,
       history \in SessionHistories,
       previous_response_id \in {None, ResponseId(1, 1)},
       token_count \in SessionTokenCounts :
         LET c == [NewConversation(<<"sk-A">>, DefaultName(1), model)
                      EXCEPT !.chat_history = history,
                             !.reasoning_effort = effort,
                             !.previous_response_id = previous_response_id,
                             !.token_count = token_count]
         IN /\ conversations = <<c>>
            /\ active_conversation = 1
            /\ conversation_combobox = c.name
            /\ conversation_counter = 2
            /\ messages_tree = DisplayTree(history)
            /\ message_node_to_content = DisplayContent(history)
            /\ reasoning_effort_ui_var = _update_reasoning_controls(<<c>>, 1)[1]
            /\ reasoning_effort_combobox = _update_reasoning_controls(<<c>>, 1)[2]
            /\ responses = IF previous_response_id = None THEN {}
                           ELSE {[id |-> previous_response_id]}
            /\ remote_thread = IF previous_response_id = None THEN << <<>> >>
                               ELSE <<HistoryMessages(history)>>
    /\ tiktoken \in {"ok", "fails"}
    /\ waiting_popup = FALSE
    /\ pc = "idle"
    /\ prompt_text = NoText
    /\ inflight = {}
    /\ response = NoResponse
    /\ ai_reply_text = NoText
    /\ messagebox = None
    /\ dialog_result = NoDialogResult
    /\ selected_message_token_count_var = <<>>

\* what the label over the message text reads for a count
TokensLabel(total_tokens) == <<"Tokens:", " ", ToString(total_tokens)>>

\* AIChatApp._on_treeview_message_select: the user selected node in the
\* message list, or cleared the selection (node 0)
_on_treeview_message_select(node) ==
    /\ ~UIThreadBlocked
    /\ node = 0 \/ \E k \in 1..Len(messages_tree) : messages_tree[k] = node
    /\ HandlerLocalsReset
    /\ messagebox' = None
    /\ dialog_result' = NoDialogResult
    /\ selected_message_token_count_var' =
           IF node = 0 THEN <<>>
           ELSE IF node \notin DOMAIN message_node_to_content
           THEN <<"Tokens:", " ", "Error">>
           ELSE IF active_conversation = NoConversation
           THEN <<"Tokens:", " ", "N/A">>
           ELSE TokensLabel(count_tokens(conversations[active_conversation].model,
                                         message_node_to_content[node].message_text))
    /\ UNCHANGED <<conversations, active_conversation, conversation_combobox,
                   conversation_counter, messages_tree, message_node_to_content,
                   reasoning_effort_ui_var, reasoning_effort_combobox,
                   waiting_popup, pc, inflight, responses, tiktoken,
                   remote_thread>>

SessionNext ==
    \/ \E entry \in PromptEntries : send_prompt(entry)
    \/ \E req \in inflight, output_text \in ReplyOutputs : ApiAnswers(req, output_text)
    \/ \E req \in inflight : ApiPreviousResponseNotFound(req)
    \/ \E req \in inflight : ApiFails(req)
    \/ \E node \in 0..(2 * MaxResponses + 3) : _on_treeview_message_select(node)

SessionSpec == SessionInit /\ [][SessionNext]_vars

\* ------------------------------------------------------------------ claims
ActiveConv == conversations[active_conversation]

IsPrefix(s, t) == Len(s) <= Len(t) /\ SubSeq(t, 1, Len(s)) = s

\* C1: in every step every conversation stays in the list and its
\* chat_history is unchanged or extended at the end: no record is removed,
\* reordered or modified.
C1_AppendOnly ==
    [][\A i \in 1..Len(conversations) :
          /\ i <= Len(conversations')
          /\ IsPrefix(conversations[i].chat_history,
                      conversations'[i].chat_history)]_vars

\* a second turn was appended behind a first one
C1_Witness ==
    \E i \in 1..Len(conversations) : Len(conversations[i].chat_history) = 4

\* C2, as stated: every request of a send in a conversation whose history is
\* non-empty carries a previous_response_id and has the new prompt as its
\* whole input.
C2_AlwaysChained ==
    \A req \in inflight :
        ActiveConv.chat_history # <<>> =>
            /\ req.previous_response_id # None
            /\ req.input = <<UserMessage(prompt_text)>>

\* C2, amended: a request of a send in a conversation whose history is
\* non-empty carries the session's previous_response_id; when that id is set
\* the input is the new prompt alone, and when it is not (the retry, or a send
\* after a failed recovery) the input is the whole history and then the prompt.
C2_ChainedOrResent ==
    \A req \in inflight :
        ActiveConv.chat_history # <<>> =>
            /\ req.previous_response_id = ActiveConv.previous_response_id
            /\ req.attempt = "retry" => req.previous_response_id = None
            /\ req.previous_response_id # None =>
                   req.input = <<UserMessage(prompt_text)>>
            /\ req.previous_response_id = None =>
                   req.input = HistoryMessages(ActiveConv.chat_history)
                                   \o <<UserMessage(prompt_text)>>

\* a chained request is in flight in a conversation that has a history
C2_Witness ==
    \E req \in inflight :
        /\ ActiveConv.chat_history # <<>>
        /\ req.previous_response_id # None

\* C3: a step changes no conversation but the active one, and a step that
\* changes which conversation is active changes no conversation at all.
C3_OnlyActiveChanges ==
    [][\A i \in 1..Len(conversations) :
          (i # active_conversation \/ active_conversation' # active_conversation)
              => /\ i <= Len(conversations')
                 /\ conversations'[i] = conversations[i]]_vars

\* the second conversation has sent and changed its effort; the first is untouched
C3_Witness ==
    /\ Len(conversations) = 2
    /\ active_conversation = 2
    /\ conversations[2].chat_history # <<>>
    /\ conversations[2].reasoning_effort = "high"
    /\ conversations[1].chat_history = <<>>
    /\ conversations[1].reasoning_effort = "medium"

\* the step in which send_prompt returns
SendReturns == pc # "idle" /\ pc' = "idle"

\* the session call of the returning send obtained a non-empty reply
GotReply == response'.kind = "ok" /\ Truthy(response'.output_text)

\* C4: a send that obtains a non-empty reply appends the user record of the
\* prompt and then the model record of the reply, and returns the reply.
C4_ReplyRecorded ==
    [][(SendReturns /\ GotReply) =>
          /\ conversations'[active_conversation].chat_history =
                 ActiveConv.chat_history
                     \o <<[role |-> "user", message_text |-> prompt_text],
                          [role |-> "model",
                           message_text |-> response'.output_text]>>
          /\ ai_reply_text' = response'.output_text]_vars

\* a send has returned a reply
C4_Witness ==
    /\ pc = "idle"
    /\ response.kind = "ok"
    /\ Truthy(ai_reply_text)
    /\ ActiveConv.chat_history # <<>>

\* C5: no step of a send that fails changes chat_history or token_count, and
\* the failed send returns None.
C5_FailedSendKeepsState ==
    [][((pc # "idle" \/ pc' # "idle") /\ ~(SendReturns /\ GotReply)) =>
          /\ conversations'[active_conversation].chat_history =
                 ActiveConv.chat_history
          /\ conversations'[active_conversation].token_count =
                 ActiveConv.token_count
          /\ SendReturns => ai_reply_text' = NoText]_vars

\* a send has failed in a conversation that has a history and a token count
C5_Witness ==
    /\ pc = "idle"
    /\ response.kind \in {"ok", "error"}
    /\ ai_reply_text = NoText
    /\ ActiveConv.chat_history # <<>>
    /\ ActiveConv.token_count > 0

\* a UI handler runs: one of the four callbacks the main loop dispatches
UIHandlerStep ==
    \/ \E d \in DialogEndStates, key_entry \in KeyEntries,
          name_entry \in TypedNames \cup {DefaultName(conversation_counter)} :
            _add_new_conversation(d, key_entry, name_entry, "ok")
    \/ _add_new_conversation(DialogCancelled, <<>>, <<>>, "cancel")
    \/ \E i \in 1..MaxConvs : _on_conversation_combobox_select(i)
    \/ \E effort \in EffortPicks : _on_reasoning_effort_change(effort)
    \/ \E entry \in PromptEntries : send_prompt(entry)

\* C6: at most one request is in flight, and from the start of a send until
\* its reply is recorded no UI handler runs.
C6_OneSendAtATime ==
    /\ [](Cardinality(inflight) <= 1)
    /\ [][pc # "idle" => ~UIHandlerStep]_vars

\* a send waits for the answer to its retry
C6_Witness == pc = "retry" /\ Cardinality(inflight) = 1 /\ waiting_popup

\* C7: when no handler is running, the message tree lists the records of the
\* active conversation in order and message_node_to_content maps each node
\* to its record.
C7_TreeShowsHistory ==
    (pc = "idle" /\ active_conversation # NoConversation) =>
        /\ Len(messages_tree) = Len(ActiveConv.chat_history)
        /\ DOMAIN message_node_to_content =
               {messages_tree[k] : k \in 1..Len(messages_tree)}
        /\ \A k \in 1..Len(messages_tree) :
               /\ message_node_to_content[messages_tree[k]] =
                      ActiveConv.chat_history[k]
               /\ \A j \in 1..Len(messages_tree) :
                      messages_tree[j] = messages_tree[k] => j = k

\* a conversation with a history was selected while another one exists
C7_Witness ==
    /\ pc = "idle"
    /\ Len(conversations) = 2
    /\ active_conversation = 1
    /\ Len(messages_tree) = 2
    /\ conversations[2].chat_history # <<>>

\* C8, as stated: once a send has returned a reply, token_count is the sum of
\* the token counts of all records of the history.
C8_CountIsSum ==
    (pc = "idle" /\ response.kind = "ok" /\ Truthy(ai_reply_text)) =>
        ActiveConv.token_count = SumTokens(ActiveConv.chat_history)

\* C8, amended: a send that returns a reply sets token_count to the sum of the
\* token counts of all records of the history when the tokenizer encodes every
\* record, and leaves token_count as it was when the tokenizer raises.
C8_CountIsSumOrKept ==
    [][(SendReturns /\ GotReply) =>
          LET after == conversations'[active_conversation]
          IN IF HistoryRaises(after.chat_history)
             THEN after.token_count = ActiveConv.token_count
             ELSE after.token_count = SumTokens(after.chat_history)]_vars

\* two turns were counted: 2 * (1 + 2) tokens
C8_Witness ==
    /\ pc = "idle"
    /\ Truthy(ai_reply_text)
    /\ Len(ActiveConv.chat_history) = 4
    /\ ~HistoryRaises(ActiveConv.chat_history)
    /\ ActiveConv.token_count = 6

\* C9: the reasoning selector is enabled exactly when the active
\* conversation's model is reasoning-compatible; enabled, it shows the effort
\* stored in that conversation's session; disabled, or with no active
\* conversation, it reads "(unavailable)".
C9_SelectorShowsEffort ==
    pc = "idle" =>
        IF active_conversation = NoConversation
        THEN /\ reasoning_effort_combobox = "disabled"
             /\ reasoning_effort_ui_var = Unavailable
        ELSE /\ reasoning_effort_combobox = "readonly"
                    <=> is_reasoning_compatible_model(ActiveConv.model)
             /\ reasoning_effort_combobox = "readonly" =>
                    reasoning_effort_ui_var = ActiveConv.reasoning_effort
             /\ reasoning_effort_combobox # "readonly" =>
                    /\ reasoning_effort_combobox = "disabled"
                    /\ reasoning_effort_ui_var = Unavailable

\* a conversation created with effort high is shown after a switch
C9_Witness ==
    /\ pc = "idle"
    /\ Len(conversations) = 2
    /\ active_conversation = 1
    /\ conversations[1].reasoning_effort = "high"
    /\ conversations[2].reasoning_effort = None
    /\ reasoning_effort_combobox = "readonly"
    /\ reasoning_effort_ui_var = "high"

\* C10: no conversation has an empty name, no two have the same name, and
\* a handler whose dialog returned the name of a conversation that exists
\* shows the Duplicate Name error and leaves the conversations as they were.
C10_NamesUnique ==
    /\ [](\A i \in 1..Len(conversations) :
             /\ conversations[i].name # <<>>
             /\ \A j \in 1..Len(conversations) :
                    conversations[j].name = conversations[i].name => j = i)
    /\ [][(/\ dialog_result'.error = None
           /\ \E i \in 1..Len(conversations) :
                  conversations[i].name = dialog_result'.conversation_name)
             => /\ messagebox' = "Duplicate Name"
                /\ conversations' = conversations]_vars

\* a creation under the first conversation's name was rejected
C10_Witness ==
    /\ messagebox = "Duplicate Name"
    /\ dialog_result.error = None
    /\ Len(conversations) = 1
    /\ dialog_result.conversation_name = conversations[1].name
\* C11: a request in flight, first attempt or retry, carries the reasoning
\* parameter with the session's effort when the session's model name starts
\* with gpt-5 and the effort is low, medium or high, and carries no reasoning
\* parameter otherwise.
C11_ReasoningIffCompatible ==
    \A req \in inflight :
        LET session == conversations[active_conversation]
            starts_with_gpt5 == Len(session.model) >= 1 /\ session.model[1] = "gpt-5"
        IN IF starts_with_gpt5 /\ session.reasoning_effort \in {"low", "medium", "high"}
           THEN req.reasoning = session.reasoning_effort
           ELSE req.reasoning = None

\* a retry carries the reasoning parameter
C11_Witness ==
    \E req \in inflight : req.attempt = "retry" /\ req.reasoning = "low"

\* C12: when the first request of a send fails with a missing-previous-response
\* error, the session's previous_response_id becomes None and one retry is in
\* flight, without previous_response_id and with the whole local history and
\* then the new prompt as input; the step after the retry ends the send: a
\* non-empty reply to the retry is returned, and a failed retry returns None.
C12_RecoveryRetriesOnce ==
    /\ [][(pc = "first" /\ response'.kind = "previous_response_not_found") =>
             /\ pc' = "retry"
             /\ conversations'[active_conversation].previous_response_id = None
             /\ conversations'[active_conversation].chat_history =
                    ActiveConv.chat_history
             /\ \E req \in inflight' :
                    /\ inflight' = {req}
                    /\ req.previous_response_id = None
                    /\ req.input =
                           [i \in 1..Len(ActiveConv.chat_history) |->
                               [role |-> IF ActiveConv.chat_history[i].role = "model"
                                         THEN "assistant"
                                         ELSE ActiveConv.chat_history[i].role,
                                content |-> ActiveConv.chat_history[i].message_text]]
                           \o <<[role |-> "user", content |-> prompt_text]>>]_vars
    /\ [][pc = "retry" =>
             /\ pc' = "idle"
             /\ inflight' = {}
             /\ response'.kind \in {"ok", "error"}
             /\ ai_reply_text' =
                    IF response'.kind = "ok" /\ Truthy(response'.output_text)
                    THEN response'.output_text ELSE NoText]_vars

\* the retry of a send in a conversation that has a history is in flight
C12_Witness ==
    /\ pc = "retry"
    /\ ActiveConv.previous_response_id = None
    /\ \E req \in inflight : req.attempt = "retry" /\ Len(req.input) = 3

\* C13: a request in flight that carries no previous_response_id has one input
\* message per record of the local chat_history, in order and with the
\* record's text, and then the new user prompt as its last message; a request
\* that carries a previous_response_id has the new user prompt as its only
\* input message.
C13_ContextNeverDropped ==
    \A req \in inflight :
        LET history == ActiveConv.chat_history
            new_prompt == [role |-> "user", content |-> prompt_text]
        IN IF req.previous_response_id = None
           THEN /\ Len(req.input) = Len(history) + 1
                /\ \A i \in 1..Len(history) :
                       req.input[i].content = history[i].message_text
                /\ req.input[Len(req.input)] = new_prompt
           ELSE req.input = <<new_prompt>>

\* a first request without previous_response_id, sent after the id was reset
\* in a conversation that has a history
C13_Witness ==
    /\ pc = "first"
    /\ Len(ActiveConv.chat_history) = 2
    /\ \E req \in inflight :
           req.attempt = "first" /\ req.previous_response_id = None

\* C14: the step in which the API answers a request stores one new response
\* and sets the session's previous_response_id to its id, whatever the reply;
\* the step in which a request fails with an error that is not a
\* missing-previous-response error leaves previous_response_id as it was.
C14_IdFollowsAnswers ==
    /\ [][(pc # "idle" /\ response'.kind = "ok") =>
             \E r \in responses' :
                 /\ r \notin responses
                 /\ responses' = responses \cup {r}
                 /\ conversations'[active_conversation].previous_response_id = r.id]_vars
    /\ [][(pc # "idle" /\ response'.kind = "error") =>
             /\ responses' = responses
             /\ conversations'[active_conversation].previous_response_id =
                    ActiveConv.previous_response_id]_vars

\* the second answer to the active conversation has been received
C14_Witness ==
    /\ pc = "idle"
    /\ response.kind = "ok"
    /\ ActiveConv.previous_response_id = ResponseId(active_conversation, 2)

\* C15: a request in flight whose input holds the local history has, for each
\* history record and in the same order, one input message whose role is
\* "assistant" when the record's role is "model" and the record's role
\* otherwise, and whose content is the record's message_text.
C15_HistoryMapped ==
    \A req \in inflight :
        Len(req.input) > 1 =>
            /\ Len(req.input) = Len(ActiveConv.chat_history) + 1
            /\ \A i \in 1..Len(ActiveConv.chat_history) :
                   LET record == ActiveConv.chat_history[i]
                   IN /\ record.role = "model" => req.input[i].role = "assistant"
                      /\ record.role # "model" => req.input[i].role = record.role
                      /\ req.input[i].content = record.message_text
                      /\ DOMAIN req.input[i] = {"role", "content"}

\* a history with a system, a user and a model record is in a request
C15_Witness ==
    \E req \in inflight :
        /\ Len(req.input) = 4
        /\ req.input[1].role = "system"
        /\ req.input[2].role = "user"
        /\ req.input[3].role = "assistant"

\* C16, as stated: whenever a session's previous_response_id is set, the chain
\* of stored responses it names holds exactly the turns of the conversation's
\* chat_history: one message per record, in order, the model's records as the
\* assistant's messages; and no step advances previous_response_id to a new
\* response without appending the turn to chat_history.
C16_LocalAndRemoteAgree ==
    /\ [](\A i \in 1..Len(conversations) :
             conversations[i].previous_response_id # None =>
                 remote_thread[i] =
                     [k \in 1..Len(conversations[i].chat_history) |->
                         [role |-> IF conversations[i].chat_history[k].role = "model"
                                   THEN "assistant"
                                   ELSE conversations[i].chat_history[k].role,
                          content |-> conversations[i].chat_history[k].message_text]])
    /\ [][\A i \in 1..Len(conversations) :
             (/\ conversations'[i].previous_response_id # None
              /\ conversations'[i].previous_response_id
                     # conversations[i].previous_response_id)
                 => conversations'[i].chat_history # conversations[i].chat_history]_vars

\* the session refers to a stored response whose turn the history lacks
C16_Diverged ==
    /\ pc = "idle"
    /\ active_conversation # NoConversation
    /\ ActiveConv.previous_response_id # None
    /\ ActiveConv.chat_history = <<>>
    /\ Len(remote_thread[active_conversation]) = 2
    /\ messagebox = "OpenAI Error"

\* C17: selecting a message shows the count count_tokens returns: the number
\* of tokens of the message's text, and 0 when no encoding can be loaded or
\* the text cannot be encoded, never an error; and a send whose recomputation
\* of the conversation total fails leaves the session's token_count as it was.
C17_TokenCountingNeverFails ==
    /\ [](selected_message_token_count_var # <<"Tokens:", " ", "Error">>)
    /\ [][\A node \in 1..(2 * MaxResponses + 3) :
             _on_treeview_message_select(node) =>
                 LET text == message_node_to_content[node].message_text
                     encodes == /\ tiktoken = "ok"
                                /\ \A k \in 1..Len(text) : text[k] # SpecialToken
                 IN selected_message_token_count_var' =
                        <<"Tokens:", " ", ToString(IF encodes THEN Len(text) ELSE 0)>>]_vars
    /\ [][(/\ SendReturns
           /\ GotReply
           /\ \/ tiktoken = "fails"
              \/ \E k \in 1..Len(conversations'[active_conversation].chat_history) :
                     EncodeRaises(conversations'[active_conversation]
                                      .chat_history[k].message_text))
             => conversations'[active_conversation].token_count =
                    ActiveConv.token_count]_vars

\* with no encoding to load, a send kept the previous total and a selected
\* message shows 0 tokens
C17_Witness ==
    /\ tiktoken = "fails"
    /\ selected_message_token_count_var = <<"Tokens:", " ", "0">>
    /\ Len(ActiveConv.chat_history) = 4
    /\ ActiveConv.token_count = 7
====
